---- MODULE Spec2Model ----
(***************************************************************************)
(* Model of the asynchronous transcoding core of app.py: the job table of  *)
(* the SQLite store, the 4-thread executor and its FIFO work queue, the    *)
(* request handlers transcode_video, batch_transcode, delete_video,        *)
(* upload_video, get_transcoding_job and get_transcoding_jobs, and the     *)
(* worker function transcode_video_cpu_intensive.                          *)
(*                                                                         *)
(* A handler or worker is cut into steps at the points where its effects   *)
(* become visible to other threads: a committed store transaction or a     *)
(* put on the executor's queue.  A store operation of the worker may       *)
(* raise (sqlite3.OperationalError), conn.close() after the last commit    *)
(* included; that is an input of the step.                                 *)
(***************************************************************************)
EXTENDS Integers, Sequences, FiniteSets, TLC

VARIABLES
    videos,     \* videos table: the i-th uploaded video's user_id, NoUser once its row is deleted
    jobs,       \* transcoding_jobs table (committed rows): job id -> row, NoJob when no row;
                \* its domain holds the job ids a run may generate
    nextId,     \* number of job ids generated so far (uuid4 values are taken in order 1, 2, ..)
    queue,      \* executor._work_queue: tasks submitted and not yet taken by a worker thread
    running,    \* tasks held by the executor's worker threads, each with its position
    inflight,   \* request handlers that have passed their checks and not yet returned
    resp        \* the HTTP response of the request that returned last

vars == <<videos, jobs, nextId, queue, running, inflight, resp>>

----------------------------------------------------------------------------
(* Bounds of the model *)

MaxJobs == 2        \* job ids generated in a run

MaxInflight == 1    \* request handlers between their check and their return

PoolJobs == 5       \* jobs submitted at once in the pool scenario

----------------------------------------------------------------------------
(* Program constants *)

max_workers == 4

valid_formats == {"h264", "h265", "vp9"}

valid_resolutions == {"480p", "720p", "1080p", "4K"}

\* init_db's default users: 1 is admin, the others are not.
Users == {1, 2, 3}

Role(u) == IF u = 1 THEN "admin" ELSE "user"

NoUser == 0

NULL == "NULL"

NoFile == <<>>

NoJob == [status |-> "absent"]

----------------------------------------------------------------------------
(* Inputs of the requests *)

\* Video ids: the ids upload_video generates, in order, and the ids requests name.
VideoIds == {1}

JobIds == 1..MaxJobs

Uploaders == {2}

\* (target_format, target_resolution) pairs a client sends: one valid pair, one with
\* a format outside the enumeration, one with a resolution outside it.
RequestTargets == {<<"h264", "720p">>, <<"xvid", "720p">>, <<"h264", "8K">>}

default_bitrate == "2M"

\* (target_format, target_resolution) pairs of the batch requests.
BatchTargets == {<<"h264", "720p">>, <<"xvid", "720p">>}

\* video_ids lists of a batch request: every list of video ids that is no longer
\* than the number of job ids.
BatchLists == UNION {[1..n -> VideoIds] : n \in 0..MaxJobs}

\* Texts of the exceptions and of the engine's diagnostic output.
StoreError == "database is locked"

EngineError == "No such file or directory: 'ffmpeg'"

Stderr == "unsupported codec"

----------------------------------------------------------------------------
(* The store *)

\* Variant of VideoVisible: the query lacks "AND user_id = ?" for a non-admin.
VideoVisible_NoOwner(u, v) ==
    /\ v \in 1..Len(videos)
    /\ videos[v] # NoUser

\* SELECT filename FROM videos WHERE id = ? [AND user_id = ?]
VideoVisible(u, v) ==
    /\ v \in 1..Len(videos)
    /\ videos[v] # NoUser
    /\ (Role(u) = "admin" \/ videos[v] = u)

\* A variant of ResultFilename without the job id.
ResultFilename_NoId(id, fmt, res) == <<fmt, res, "mp4">>

ResultFilename(id, fmt, res) == <<id, fmt, res, "mp4">>

\* Variant of NewJob: the INSERT leaves result_filename to its default, NULL.
NewJob_NoResult(id, u, v, fmt, res) ==
    [user_id |-> u, video_id |-> v,
     target_format |-> fmt, target_resolution |-> res, target_bitrate |-> default_bitrate,
     status |-> "queued", progress |-> 0,
     result_filename |-> NoFile,
     created_at |-> "ts", started_at |-> NULL, completed_at |-> NULL,
     processing_time |-> NULL, error_message |-> NULL]

\* INSERT INTO transcoding_jobs (id, user_id, video_id, target_format,
\* target_resolution, target_bitrate, result_filename); the other columns take the
\* defaults of the schema.
NewJob(id, u, v, fmt, res) ==
    [user_id |-> u, video_id |-> v,
     target_format |-> fmt, target_resolution |-> res, target_bitrate |-> default_bitrate,
     status |-> "queued", progress |-> 0,
     result_filename |-> ResultFilename(id, fmt, res),
     created_at |-> "ts", started_at |-> NULL, completed_at |-> NULL,
     processing_time |-> NULL, error_message |-> NULL]

\* A connection other than the caller's holds an open write transaction: a writer
\* waits for it (sqlite's busy handler).
dbLocked == \E r \in inflight : r.pc = "commit"

Exists(id) == jobs[id] # NoJob

Init ==
    /\ videos = <<>>
    /\ jobs = [j \in JobIds |-> NoJob]
    /\ nextId = 0
    /\ queue = <<>>
    /\ running = {}
    /\ inflight = {}
    /\ resp = [op |-> "none", code |-> 0, job_ids |-> <<>>]

Reply(op, code, ids) == resp' = [op |-> op, code |-> code, job_ids |-> ids]

\* Job ids the in-flight batch requests may still generate.
RECURSIVE Reserved(_)
Reserved(S) ==
    IF S = {} THEN 0
    ELSE LET r == CHOOSE x \in S : TRUE
         IN (IF r.op # "batch" THEN 0
             ELSE IF r.pc = "commit" THEN Len(r.vids) - 1 ELSE Len(r.vids))
            + Reserved(S \ {r})

----------------------------------------------------------------------------
(* upload_video: stores the file and inserts the videos row *)

upload_video(u) ==
    /\ Len(videos) < Cardinality(VideoIds)
    /\ ~dbLocked
    /\ videos' = Append(videos, u)
    /\ Reply("upload_video", 201, <<>>)
    /\ UNCHANGED <<jobs, nextId, queue, running, inflight>>

----------------------------------------------------------------------------
(* transcode_video (Submit) *)

\* Variant of ValidTarget: the resolution is not checked.
ValidTarget_FormatOnly(fmt, res) == fmt \in valid_formats

ValidTarget(fmt, res) == fmt \in valid_formats /\ res \in valid_resolutions

\* os.path.join(app.config['UPLOAD_FOLDER'], video[0]) and
\* os.path.join(app.config['TRANSCODED_FOLDER'], result_filename)
UploadPath(v) == <<"uploads", v>>

TranscodedPath(f) == <<"transcoded", f>>

\* The arguments executor.submit is given for transcode_video_cpu_intensive.
Task(id, v, fmt, res) ==
    [input_path |-> UploadPath(v), output_path |-> TranscodedPath(ResultFilename(id, fmt, res)),
     format |-> fmt, resolution |-> res, target_bitrate |-> default_bitrate, job_id |-> id]

\* Validation and the ownership check; a request that passes continues as an
\* in-flight handler holding the job id it generated.
transcode_video(u, v, fmt, res) ==
    IF ~ValidTarget(fmt, res)
    THEN /\ Reply("transcode_video", 400, <<>>)
         /\ UNCHANGED <<videos, jobs, nextId, queue, running, inflight>>
    ELSE IF ~VideoVisible(u, v)
    THEN /\ Reply("transcode_video", 404, <<>>)
         /\ UNCHANGED <<videos, jobs, nextId, queue, running, inflight>>
    ELSE /\ nextId + Reserved(inflight) < Len(jobs)
         /\ Cardinality(inflight) < MaxInflight
         /\ nextId' = nextId + 1
         /\ inflight' = inflight \cup
                {[op |-> "transcode", pc |-> "insert", user |-> u, vids |-> <<v>>,
                  format |-> fmt, resolution |-> res, job_ids |-> <<nextId + 1>>]}
         /\ UNCHANGED <<videos, jobs, queue, running, resp>>

\* INSERT INTO transcoding_jobs ...; conn.commit()
transcode_insert(r) ==
    /\ r.op = "transcode" /\ r.pc = "insert"
    /\ ~dbLocked
    /\ jobs' = [jobs EXCEPT ![r.job_ids[1]] =
                    NewJob(r.job_ids[1], r.user, r.vids[1], r.format, r.resolution)]
    /\ inflight' = (inflight \ {r}) \cup {[r EXCEPT !.pc = "submit"]}
    /\ UNCHANGED <<videos, nextId, queue, running, resp>>

\* A variant of transcode_submit that hands the task over only when a worker is free.
transcode_submit_WaitForSlot(r) ==
    /\ r.op = "transcode" /\ r.pc = "submit"
    /\ Cardinality(running) < max_workers
    /\ queue' = Append(queue, Task(r.job_ids[1], r.vids[1], r.format, r.resolution))
    /\ inflight' = inflight \ {r}
    /\ Reply("transcode_video", 202, r.job_ids)
    /\ UNCHANGED <<videos, jobs, nextId, running>>

\* executor.submit(transcode_video_cpu_intensive, ...); return 202
transcode_submit(r) ==
    /\ r.op = "transcode" /\ r.pc = "submit"
    /\ queue' = Append(queue, Task(r.job_ids[1], r.vids[1], r.format, r.resolution))
    /\ inflight' = inflight \ {r}
    /\ Reply("transcode_video", 202, r.job_ids)
    /\ UNCHANGED <<videos, jobs, nextId, running>>

----------------------------------------------------------------------------
(* batch_transcode (SubmitBatch) *)

batch_transcode(u, ids, fmt, res) ==
    IF ids = <<>>
    THEN /\ Reply("batch_transcode", 400, <<>>)
         /\ UNCHANGED <<videos, jobs, nextId, queue, running, inflight>>
    ELSE /\ nextId + Reserved(inflight) + Len(ids) <= Len(jobs)
         /\ Cardinality(inflight) < MaxInflight
         /\ inflight' = inflight \cup
                {[op |-> "batch", pc |-> "item", user |-> u, req |-> ids, vids |-> ids,
                  format |-> fmt, resolution |-> res, job_ids |-> <<>>]}
         /\ UNCHANGED <<videos, jobs, nextId, queue, running, resp>>

\* A variant of batch_item without the SELECT on videos: a job for every item.
batch_item_NoCheck(r) ==
    /\ r.op = "batch" /\ r.pc = "item" /\ r.vids # <<>>
    /\ ~dbLocked
    /\ nextId' = nextId + 1
    /\ queue' = Append(queue, Task(nextId + 1, Head(r.vids), r.format, r.resolution))
    /\ inflight' = (inflight \ {r}) \cup
           {[r EXCEPT !.pc = "commit", !.job_ids = Append(@, nextId + 1)]}
    /\ UNCHANGED <<videos, jobs, running, resp>>

\* One pass of the loop up to executor.submit: the SELECT, and for a visible video
\* the INSERT (not yet committed) and the put on the executor's queue.
batch_item(r) ==
    /\ r.op = "batch" /\ r.pc = "item" /\ r.vids # <<>>
    /\ IF VideoVisible(r.user, Head(r.vids))
       THEN /\ ~dbLocked
            /\ nextId' = nextId + 1
            /\ queue' = Append(queue, Task(nextId + 1, Head(r.vids), r.format, r.resolution))
            /\ inflight' = (inflight \ {r}) \cup
                   {[r EXCEPT !.pc = "commit", !.job_ids = Append(@, nextId + 1)]}
       ELSE /\ inflight' = (inflight \ {r}) \cup {[r EXCEPT !.vids = Tail(@)]}
            /\ UNCHANGED <<nextId, queue>>
    /\ UNCHANGED <<videos, jobs, running, resp>>

\* conn.commit() at the end of the pass: the inserted row becomes visible.
batch_commit(r) ==
    /\ r.op = "batch" /\ r.pc = "commit"
    /\ LET id == r.job_ids[Len(r.job_ids)]
       IN jobs' = [jobs EXCEPT ![id] =
                       NewJob(id, r.user, Head(r.vids), r.format, r.resolution)]
    /\ inflight' = (inflight \ {r}) \cup {[r EXCEPT !.pc = "item", !.vids = Tail(@)]}
    /\ UNCHANGED <<videos, nextId, queue, running, resp>>

batch_return(r) ==
    /\ r.op = "batch" /\ r.pc = "item" /\ r.vids = <<>>
    /\ inflight' = inflight \ {r}
    /\ Reply("batch_transcode", 202, r.job_ids)
    /\ UNCHANGED <<videos, jobs, nextId, queue, running>>

----------------------------------------------------------------------------
(* delete_video *)

delete_video(u, v) ==
    IF ~VideoVisible(u, v)
    THEN /\ Reply("delete_video", 404, <<>>)
         /\ UNCHANGED <<videos, jobs, nextId, queue, running, inflight>>
    ELSE /\ ~dbLocked
         /\ jobs' = [j \in DOMAIN jobs |->
                        IF Exists(j) /\ jobs[j].video_id = v THEN NoJob ELSE jobs[j]]
         /\ videos' = [videos EXCEPT ![v] = NoUser]
         /\ Reply("delete_video", 200, <<>>)
         /\ UNCHANGED <<nextId, queue, running, inflight>>

----------------------------------------------------------------------------
(* get_transcoding_job (Query) and get_transcoding_jobs (List) *)

\* The job id of a request for a job that was never created.
UnknownJob == 0

\* The status filters of the List requests; NULL: no filter.
StatusFilters == {NULL, "completed"}

\* A variant of SelectJob without the user_id condition.
SelectJob_AnyUser(J, u, id) == id \in DOMAIN J /\ J[id] # NoJob

\* SELECT ... FROM transcoding_jobs WHERE id = ? [AND user_id = ?] in the table J:
\* an admin selects by id, any other user by id and owner.
SelectJob(J, u, id) ==
    /\ id \in DOMAIN J
    /\ J[id] # NoJob
    /\ (Role(u) = "admin" \/ J[id].user_id = u)

DownloadUrl(id) == <<"/api/v1/transcoding/jobs", id, "download">>

\* A job_data without the key download_url.
NoUrl == <<>>

\* A variant of JobData that gives a download_url for every finished job.
JobData_UrlWhenFinished(id, row) ==
    [id |-> id,
     target_format |-> row.target_format,
     target_resolution |-> row.target_resolution,
     status |-> row.status,
     progress |-> row.progress,
     created_at |-> row.created_at,
     completed_at |-> row.completed_at,
     processing_time |-> row.processing_time,
     error_message |-> row.error_message,
     download_url |-> IF row.result_filename # NoFile /\ row.status \in {"completed", "failed"}
                      THEN DownloadUrl(id) ELSE NoUrl]

\* The job_data of get_transcoding_job.
JobData(id, row) ==
    [id |-> id,
     target_format |-> row.target_format,
     target_resolution |-> row.target_resolution,
     status |-> row.status,
     progress |-> row.progress,
     created_at |-> row.created_at,
     completed_at |-> row.completed_at,
     processing_time |-> row.processing_time,
     error_message |-> row.error_message,
     download_url |-> IF row.result_filename # NoFile /\ row.status = "completed"
                      THEN DownloadUrl(id) ELSE NoUrl]

\* The response of get_transcoding_job to user u for job id, from the table J.
JobResponse(J, u, id) ==
    IF SelectJob(J, u, id)
    THEN [code |-> 200, body |-> JobData(id, J[id])]
    ELSE [code |-> 404, body |-> "Job not found"]

\* A variant of get_transcoding_job that removes the row of a finished job once it
\* has been served.
get_transcoding_job_Purge(u, id) ==
    /\ resp' = [op |-> "get_transcoding_job", user |-> u, job_ids |-> <<id>>,
                code |-> JobResponse(jobs, u, id).code,
                body |-> JobResponse(jobs, u, id).body]
    /\ jobs' = IF SelectJob(jobs, u, id) /\ jobs[id].status \in {"completed", "failed"}
               THEN [jobs EXCEPT ![id] = NoJob] ELSE jobs
    /\ UNCHANGED <<videos, nextId, queue, running, inflight>>

get_transcoding_job(u, id) ==
    /\ resp' = [op |-> "get_transcoding_job", user |-> u, job_ids |-> <<id>>,
                code |-> JobResponse(jobs, u, id).code,
                body |-> JobResponse(jobs, u, id).body]
    /\ UNCHANGED <<videos, jobs, nextId, queue, running, inflight>>

\* The rows of transcoding_jobs j JOIN videos v ON j.video_id = v.id
\* [WHERE j.user_id = ?] [AND j.status = ?].
ListRows(J, u, st) ==
    {j \in DOMAIN J :
        /\ J[j] # NoJob
        /\ J[j].video_id \in 1..Len(videos) /\ videos[J[j].video_id] # NoUser
        /\ (Role(u) = "admin" \/ J[j].user_id = u)
        /\ (st = NULL \/ J[j].status = st)}

\* The job_data of get_transcoding_jobs; video_filename is that of the joined videos
\* row, user_id is given to an admin only.
ListData(u, id, row) ==
    [id |-> id,
     target_format |-> row.target_format,
     target_resolution |-> row.target_resolution,
     status |-> row.status,
     progress |-> row.progress,
     created_at |-> row.created_at,
     completed_at |-> row.completed_at,
     processing_time |-> row.processing_time,
     video_filename |-> <<"original_filename", row.video_id>>,
     user_id |-> IF Role(u) = "admin" THEN row.user_id ELSE NULL,
     download_url |-> IF row.status = "completed" THEN DownloadUrl(id) ELSE NoUrl]

\* The first page of the list, with a page size no smaller than the number of jobs
\* (page = 1, per_page = 10 by default); ok = FALSE when a query raises and the
\* handler answers with the empty list.
get_transcoding_jobs(u, st, ok) ==
    /\ resp' = [op |-> "get_transcoding_jobs", user |-> u, status |-> st, job_ids |-> <<>>,
                code |-> 200,
                body |-> IF ok
                         THEN [jobs |-> {ListData(u, j, jobs[j]) : j \in ListRows(jobs, u, st)},
                               total |-> Cardinality(ListRows(jobs, u, st))]
                         ELSE [jobs |-> {}, total |-> 0]]
    /\ UNCHANGED <<videos, jobs, nextId, queue, running, inflight>>

\* SELECT result_filename FROM transcoding_jobs
\* WHERE id = ? [AND user_id = ?] AND status = 'completed', with a result that is
\* not empty.
SelectResult(u, id) ==
    /\ SelectJob(jobs, u, id)
    /\ jobs[id].status = "completed"
    /\ jobs[id].result_filename # NoFile

\* The response of download_transcoded_video; exists is os.path.exists(file_path),
\* the file system being outside the store.
DownloadResponse(u, id, exists) ==
    IF ~SelectResult(u, id)
    THEN [code |-> 404, body |-> "Transcoded video not found"]
    ELSE IF exists
    THEN [code |-> 200, body |-> TranscodedPath(jobs[id].result_filename)]
    ELSE [code |-> 404, body |-> "File not found"]

\* A variant of download_transcoded_video whose SELECT has no status condition.
download_transcoded_video_AnyStatus(u, id, exists) ==
    /\ resp' = [op |-> "download_transcoded_video", user |-> u, job_ids |-> <<id>>,
                code |-> IF SelectJob(jobs, u, id) /\ exists THEN 200 ELSE 404,
                body |-> IF SelectJob(jobs, u, id) /\ exists
                         THEN TranscodedPath(jobs[id].result_filename)
                         ELSE "Transcoded video not found"]
    /\ UNCHANGED <<videos, jobs, nextId, queue, running, inflight>>

download_transcoded_video(u, id, exists) ==
    /\ resp' = [op |-> "download_transcoded_video", user |-> u, job_ids |-> <<id>>,
                code |-> DownloadResponse(u, id, exists).code,
                body |-> DownloadResponse(u, id, exists).body]
    /\ UNCHANGED <<videos, jobs, nextId, queue, running, inflight>>

----------------------------------------------------------------------------
(* stress_test: CPU tasks handed to the same executor *)

\* The intensity of a stress-test request (4 by default).
Intensities == {max_workers}

\* The k-th cpu_intensive_task closure of a request; it belongs to no job (job_id < 0).
StressTask(k) == [job_id |-> 0 - k, format |-> "cpu_intensive_task"]

IsStress(t) == t.job_id < 0

\* The stress tasks queued or held by a worker.
LiveStress ==
    {queue[i].job_id : i \in {k \in 1..Len(queue) : IsStress(queue[k])}}
        \cup {t.job_id : t \in {w \in running : IsStress(w)}}

\* for _ in range(intensity): executor.submit(cpu_intensive_task); return 200.
\* One stress test at a time: the request is taken when the tasks of the
\* previous one have ended.
stress_test(intensity) ==
    /\ LiveStress = {}
    /\ queue' = queue \o [k \in 1..intensity |-> StressTask(k)]
    /\ Reply("stress_test", 200, <<>>)
    /\ UNCHANGED <<videos, jobs, nextId, running, inflight>>

\* cpu_intensive_task returns when its duration has elapsed.
cpu_intensive_task(t) ==
    /\ t.pc = "stress"
    /\ running' = running \ {t}
    /\ UNCHANGED <<videos, jobs, nextId, queue, inflight, resp>>

----------------------------------------------------------------------------
(* The executor and transcode_video_cpu_intensive *)

\* A worker thread calling a task: the task's arguments and the thread's position,
\* the exception it caught (err) and the command it has built (cmd), none yet.
Call(task) ==
    task @@ [pc |-> IF IsStress(task) THEN "stress" ELSE "start", err |-> NULL, cmd |-> <<>>]

\* A variant of WorkerTake that takes the newest task of the work queue.
WorkerTake_Lifo ==
    /\ queue # <<>>
    /\ Cardinality(running) < max_workers
    /\ running' = running \cup {Call(queue[Len(queue)])}
    /\ queue' = SubSeq(queue, 1, Len(queue) - 1)
    /\ UNCHANGED <<videos, jobs, nextId, inflight, resp>>

\* A variant of WorkerTake that takes the oldest stress task when there is one, and
\* the oldest task otherwise.
WorkerTake_StressFirst ==
    /\ queue # <<>>
    /\ Cardinality(running) < max_workers
    /\ LET S == {i \in 1..Len(queue) : IsStress(queue[i])}
           n == IF S = {} THEN 1 ELSE CHOOSE i \in S : \A k \in S : i <= k
       IN /\ running' = running \cup {Call(queue[n])}
          /\ queue' = SubSeq(queue, 1, n - 1) \o SubSeq(queue, n + 1, Len(queue))
    /\ UNCHANGED <<videos, jobs, nextId, inflight, resp>>

\* A free worker thread takes the oldest task of the work queue and calls it:
\* transcode_video_cpu_intensive from its first line, or cpu_intensive_task.
WorkerTake ==
    /\ queue # <<>>
    /\ Cardinality(running) < max_workers
    /\ running' = running \cup {Call(Head(queue))}
    /\ queue' = Tail(queue)
    /\ UNCHANGED <<videos, jobs, nextId, inflight, resp>>

\* A variant of Update without the WHERE clause: the columns are set in every row.
Update_NoWhere(id, row) ==
    [j \in DOMAIN jobs |->
        IF Exists(j)
        THEN [jobs[j] EXCEPT !.status = row.status, !.progress = row.progress,
                             !.started_at = row.started_at,
                             !.completed_at = row.completed_at,
                             !.processing_time = row.processing_time,
                             !.error_message = row.error_message]
        ELSE jobs[j]]

\* UPDATE ... WHERE id = ?: changes the row when there is one, nothing otherwise.
Update(id, row) == IF Exists(id) THEN [jobs EXCEPT ![id] = row] ELSE jobs

\* A variant of ProcessingRow that also stores the bitrate the engine is given.
ProcessingRow_Retarget(row) ==
    [row EXCEPT !.status = "processing", !.started_at = "ts", !.target_bitrate = "auto"]

ProcessingRow(row) == [row EXCEPT !.status = "processing", !.started_at = "ts"]

\* Variant of CompletedRow: the UPDATE does not store processing_time.
CompletedRow_NoDuration(row) ==
    [row EXCEPT !.status = "completed", !.progress = 100, !.completed_at = "ts"]

CompletedRow(row) ==
    [row EXCEPT !.status = "completed", !.progress = 100,
                !.completed_at = "ts", !.processing_time = "secs"]

\* Variant of FailedRow: the UPDATE also clears result_filename.
FailedRow_ClearResult(row, text) ==
    [row EXCEPT !.status = "failed", !.error_message = text, !.result_filename = NoFile]

FailedRow(row, text) == [row EXCEPT !.status = "failed", !.error_message = text]

Goto(t, pc, err) == running' = (running \ {t}) \cup {[t EXCEPT !.pc = pc, !.err = err]}

\* str.lower() on the format names a client may send.
Lower(fmt) ==
    CASE fmt = "H264" -> "h264"
      [] fmt = "H265" -> "h265"
      [] fmt = "VP9" -> "vp9"
      [] OTHER -> fmt

\* A variant of ScaleFilter that scales 4K targets to 1920:1080.
ScaleFilter_4KAs1080(res) ==
    IF res = "4K" THEN <<"scale=1920:1080:flags=lanczos">>
    ELSE IF res = "1080p" THEN <<"scale=1920:1080:flags=lanczos">>
    ELSE IF res = "720p" THEN <<"scale=1280:720:flags=lanczos">>
    ELSE IF res = "480p" THEN <<"scale=854:480:flags=lanczos">>
    ELSE <<>>

\* Lines 236-244: the scale filter appended for target_resolution, none for a
\* resolution outside the four.
ScaleFilter(res) ==
    IF res = "4K" THEN <<"scale=3840:2160:flags=lanczos">>
    ELSE IF res = "1080p" THEN <<"scale=1920:1080:flags=lanczos">>
    ELSE IF res = "720p" THEN <<"scale=1280:720:flags=lanczos">>
    ELSE IF res = "480p" THEN <<"scale=854:480:flags=lanczos">>
    ELSE <<>>

\* Lines 247-251: the enhancement filters.
EnhancementFilters ==
    <<"unsharp=5:5:1.0:5:5:0.0", "eq=contrast=1.1:brightness=0.02:saturation=1.1",
      "hqdn3d=4:3:6:4.5">>

\* Lines 258-277: the video codec settings for target_format.lower().
CodecFlags(fmt) ==
    IF Lower(fmt) = "h264"
    THEN <<"-c:v", "libx264", "-preset", "veryslow", "-crf", "18", "-x264-params",
           "me=umh:subme=10:ref=16:b-adapt=2:direct=auto:weightp=2">>
    ELSE IF Lower(fmt) = "h265"
    THEN <<"-c:v", "libx265", "-preset", "veryslow", "-crf", "20", "-x265-params",
           "me=3:subme=4:ref=6:b-adapt=2">>
    ELSE IF Lower(fmt) = "vp9"
    THEN <<"-c:v", "libvpx-vp9", "-crf", "20", "-b:v", "0", "-cpu-used", "0">>
    ELSE <<>>

\* Lines 229-287: cmd as handed to subprocess.run.  The argument of -vf is the list
\* of filters that ','.join makes one string of.
FfmpegCommand(input_path, output_path, fmt, res, bitrate) ==
    LET video_filters == ScaleFilter(res) \o EnhancementFilters
    IN <<"ffmpeg", "-i", input_path, "-y">>
           \o (IF video_filters # <<>> THEN <<"-vf", video_filters>> ELSE <<>>)
           \o CodecFlags(fmt)
           \o <<"-c:a", "aac", "-b:a", "128k">>
           \o (IF bitrate # "" THEN <<"-b:v", bitrate>> ELSE <<>>)
           \o <<output_path>>

\* Lines 217-287: the first UPDATE and its commit, then the engine's command is
\* built; ok = FALSE when a store operation raises before the commit takes effect.
MarkProcessing(t, ok) ==
    /\ t.pc = "start"
    /\ IF ok
       THEN /\ ~dbLocked
            /\ jobs' = Update(t.job_id, ProcessingRow(jobs[t.job_id]))
            /\ running' = (running \ {t}) \cup
                   {[t EXCEPT !.pc = "engine",
                              !.cmd = FfmpegCommand(t.input_path, t.output_path, t.format,
                                                    t.resolution, t.target_bitrate)]}
       ELSE /\ Goto(t, "except", StoreError)
            /\ UNCHANGED jobs
    /\ UNCHANGED <<videos, nextId, queue, inflight, resp>>

\* Lines 227-314: the engine runs and its outcome is stored.  outcome is the
\* engine's: "exit0", "nonzero", or "raise" when subprocess.run itself raises.
\* ok = FALSE when the UPDATE or its commit (lines 299-313) raises; closed = FALSE
\* when conn.close() (line 314, still inside the try block) raises after the commit.
RunEngine(t, outcome, ok, closed) ==
    /\ t.pc = "engine"
    /\ IF outcome = "raise"
       THEN /\ ok /\ closed
            /\ Goto(t, "except", EngineError)
            /\ UNCHANGED jobs
       ELSE IF ~ok
       THEN /\ closed
            /\ Goto(t, "except", StoreError)
            /\ UNCHANGED jobs
       ELSE /\ ~dbLocked
            /\ jobs' = Update(t.job_id,
                              IF outcome = "exit0"
                              THEN CompletedRow(jobs[t.job_id])
                              ELSE FailedRow(jobs[t.job_id], Stderr))
            /\ IF closed
               THEN running' = running \ {t}
               ELSE Goto(t, "except", StoreError)
    /\ UNCHANGED <<videos, nextId, queue, inflight, resp>>

\* A variant of ExceptHandler that hands the task to the executor again.
ExceptHandler_Retry(t, ok) ==
    /\ t.pc = "except"
    /\ IF ok
       THEN /\ ~dbLocked
            /\ jobs' = Update(t.job_id, FailedRow(jobs[t.job_id], t.err))
       ELSE UNCHANGED jobs
    /\ running' = running \ {t}
    /\ queue' = Append(queue, [f \in DOMAIN t \ {"pc", "err", "cmd"} |-> t[f]])
    /\ UNCHANGED <<videos, nextId, inflight, resp>>

\* Lines 316-325: the except block; when its own store operation raises, the
\* exception leaves the task and the row is not written.
ExceptHandler(t, ok) ==
    /\ t.pc = "except"
    /\ IF ok
       THEN /\ ~dbLocked
            /\ jobs' = Update(t.job_id, FailedRow(jobs[t.job_id], t.err))
       ELSE UNCHANGED jobs
    /\ running' = running \ {t}
    /\ UNCHANGED <<videos, nextId, queue, inflight, resp>>

EngineOutcomes == {"exit0", "nonzero", "raise"}

----------------------------------------------------------------------------

\* The request handlers, with the inputs of the requests drawn from the given sets.
Requests(U, T, BT) ==
    \/ \E u \in Uploaders : upload_video(u)
    \/ \E u \in U, v \in VideoIds, t \in T : transcode_video(u, v, t[1], t[2])
    \/ \E r \in inflight : transcode_insert(r)
    \/ \E r \in inflight : transcode_submit(r)
    \/ \E u \in U, ids \in BatchLists, t \in BT : batch_transcode(u, ids, t[1], t[2])
    \/ \E r \in inflight : batch_item(r)
    \/ \E r \in inflight : batch_commit(r)
    \/ \E r \in inflight : batch_return(r)
    \/ \E u \in U, v \in VideoIds : delete_video(u, v)

\* The executor's threads; OK is the set of outcomes of a store operation (TRUE: it
\* succeeds, FALSE: it raises).
Workers(OK) ==
    \/ WorkerTake
    \/ \E t \in running, ok \in OK : MarkProcessing(t, ok)
    \/ \E t \in running, o \in EngineOutcomes, ok \in OK, closed \in OK :
           RunEngine(t, o, ok, closed)
    \/ \E t \in running, ok \in OK : ExceptHandler(t, ok)

\* Job lifecycle: requests of the owner of the video (single submissions and
\* batches with a valid target), the workers with every engine outcome and with
\* store operations that may raise.
Next == Requests({2}, {<<"h264", "720p">>}, {<<"h264", "720p">>}) \/ Workers(BOOLEAN)

Spec == Init /\ [][Next]_vars

\* Batches: requests of the owner of the video, batches with a valid and with an
\* invalid target; the workers' store operations succeed.
NextBatch == Requests({2}, {<<"h264", "720p">>}, BatchTargets) \/ Workers({TRUE})

SpecBatch == Init /\ [][NextBatch]_vars

\* Intake: uploads, single submissions of every user with every target and
\* deletions by every user; the workers' store operations succeed.
NextIntake ==
    \/ \E u \in Uploaders : upload_video(u)
    \/ \E u \in Users, v \in VideoIds, t \in RequestTargets :
           transcode_video(u, v, t[1], t[2])
    \/ \E r \in inflight : transcode_insert(r)
    \/ \E r \in inflight : transcode_submit(r)
    \/ \E u \in Users, v \in VideoIds : delete_video(u, v)
    \/ Workers({TRUE})

SpecIntake == Init /\ [][NextIntake]_vars

\* Pool scenario (Scenario F): PoolJobs jobs of one owner were submitted at once and
\* no worker thread has run yet; from there only the workers act.
InitPool ==
    /\ videos = <<2>>
    /\ jobs = [j \in 1..PoolJobs |-> NewJob(j, 2, 1, "h264", "720p")]
    /\ nextId = PoolJobs
    /\ queue = [j \in 1..PoolJobs |-> Task(j, 1, "h264", "720p")]
    /\ running = {}
    /\ inflight = {}
    /\ resp = [op |-> "transcode_video", code |-> 202, job_ids |-> <<PoolJobs>>]

NextPool == Workers(BOOLEAN)

SpecPool == InitPool /\ [][NextPool]_vars

\* Busy pool: the PoolJobs jobs of the pool scenario, and one more job submitted by
\* the owner of the video while they run; the workers' store operations succeed.
InitBacklog ==
    /\ videos = <<2>>
    /\ jobs = [j \in 1..(PoolJobs + 1) |->
                  IF j <= PoolJobs THEN NewJob(j, 2, 1, "h264", "720p") ELSE NoJob]
    /\ nextId = PoolJobs
    /\ queue = [j \in 1..PoolJobs |-> Task(j, 1, "h264", "720p")]
    /\ running = {}
    /\ inflight = {}
    /\ resp = [op |-> "transcode_video", code |-> 202, job_ids |-> <<PoolJobs>>]

NextBacklog ==
    \/ \E v \in VideoIds : transcode_video(2, v, "h264", "720p")
    \/ \E r \in inflight : transcode_insert(r)
    \/ \E r \in inflight : transcode_submit(r)
    \/ Workers({TRUE})

SpecBacklog == InitBacklog /\ [][NextBacklog]_vars

\* Batches over several videos: video 1 of user 2 and video 2 of user 3, no video 3;
\* user 2 sends batches in which the items it may not transcode (video 2 of
\* another user, video 3 that does not exist) come first, in the middle, last,
\* alone, or not at all, and the admin a batch of video 2 and video 3; the workers'
\* store operations succeed.
ScenarioLists ==
    {<<>>, <<2>>, <<3>>, <<1, 1>>, <<2, 1, 1>>, <<1, 3, 1>>, <<1, 1, 2>>}

ScenarioRequests == {<<2, ids>> : ids \in ScenarioLists} \cup {<<1, <<2, 3>>>>}

InitScenario ==
    /\ videos = <<2, 3>>
    /\ jobs = [j \in 1..(MaxJobs + 1) |-> NoJob]
    /\ nextId = 0
    /\ queue = <<>>
    /\ running = {}
    /\ inflight = {}
    /\ resp = [op |-> "upload_video", code |-> 201, job_ids |-> <<>>]

NextScenario ==
    \/ \E q \in ScenarioRequests : batch_transcode(q[1], q[2], "h264", "720p")
    \/ \E r \in inflight : batch_item(r)
    \/ \E r \in inflight : batch_commit(r)
    \/ \E r \in inflight : batch_return(r)
    \/ Workers({TRUE})

SpecScenario == InitScenario /\ [][NextScenario]_vars

\* Shared pool: user 2 has uploaded a video and submits jobs for it while stress
\* tests are started; the workers' store operations succeed.
InitStress ==
    /\ videos = <<2>>
    /\ jobs = [j \in JobIds |-> NoJob]
    /\ nextId = 0
    /\ queue = <<>>
    /\ running = {}
    /\ inflight = {}
    /\ resp = [op |-> "upload_video", code |-> 201, job_ids |-> <<>>]

NextStress ==
    \/ \E n \in Intensities : stress_test(n)
    \/ \E t \in running : cpu_intensive_task(t)
    \/ \E v \in VideoIds : transcode_video(2, v, "h264", "720p")
    \/ \E r \in inflight : transcode_insert(r)
    \/ \E r \in inflight : transcode_submit(r)
    \/ Workers({TRUE})

SpecStress == InitStress /\ [][NextStress]_vars

\* The ids of the tasks the executor may hold: those of the jobs and of the stress tasks.
TaskIds == JobIds \cup {0 - k : k \in 1..max_workers}

\* Fair scheduling: a request handler that is past its checks goes on to its
\* return; a free worker thread takes a waiting task; every thread that holds a
\* task goes on with it, the engine call and cpu_intensive_task returning.
Fairness ==
    /\ WF_vars(\E r \in inflight : transcode_insert(r) \/ transcode_submit(r))
    /\ WF_vars(WorkerTake)
    /\ \A id \in TaskIds :
           WF_vars(\E t \in running :
                      /\ t.job_id = id
                      /\ \/ MarkProcessing(t, TRUE)
                         \/ \E o \in EngineOutcomes : RunEngine(t, o, TRUE, TRUE)
                         \/ ExceptHandler(t, TRUE)
                         \/ cpu_intensive_task(t))

\* Submissions, stress tests and deletions of the owner, the workers with store
\* operations that succeed.
NextLive == NextStress \/ (\E v \in VideoIds : delete_video(2, v))

SpecLive == InitStress /\ [][NextLive]_vars /\ Fairness

\* target_bitrate values of a request: the default and an empty string.
Bitrates == {default_bitrate, ""}

\* The targets a request can pass validation with.
EncodeTargets == valid_formats \X valid_resolutions \X Bitrates

\* Encoding: one submitted job per job id, of one video, each with any valid target;
\* the workers run them, the engine exiting with 0.
InitEncode ==
    \E T \in [JobIds -> EncodeTargets] :
        /\ videos = <<2>>
        /\ jobs = [j \in JobIds |->
                      [NewJob(j, 2, 1, T[j][1], T[j][2]) EXCEPT !.target_bitrate = T[j][3]]]
        /\ nextId = MaxJobs
        /\ queue = [j \in JobIds |->
                       [Task(j, 1, T[j][1], T[j][2]) EXCEPT !.target_bitrate = T[j][3]]]
        /\ running = {}
        /\ inflight = {}
        /\ resp = [op |-> "transcode_video", code |-> 202, job_ids |-> <<MaxJobs>>]

NextEncode ==
    \/ WorkerTake
    \/ \E t \in running : MarkProcessing(t, TRUE)
    \/ \E t \in running : RunEngine(t, "exit0", TRUE, TRUE)

SpecEncode == InitEncode /\ [][NextEncode]_vars

\* Listing: uploads, submissions and deletions by the owner of the video, lists by
\* every user with and without a status filter; every store operation succeeds.
NextList ==
    \/ \E u \in Uploaders : upload_video(u)
    \/ \E v \in VideoIds : transcode_video(2, v, "h264", "720p")
    \/ \E r \in inflight : transcode_insert(r)
    \/ \E r \in inflight : transcode_submit(r)
    \/ \E v \in VideoIds : delete_video(2, v)
    \/ \E u \in Users, st \in StatusFilters : get_transcoding_jobs(u, st, TRUE)
    \/ Workers({TRUE})

SpecList == Init /\ [][NextList]_vars

\* Queries: one video of user 2 and one submitted job per job id, those of odd id by
\* user 2 and the others by the admin; every user queries and lists while the
\* workers run the jobs, and the video may be deleted.
InitQuery ==
    /\ videos = <<2>>
    /\ jobs = [j \in JobIds |-> NewJob(j, IF j % 2 = 1 THEN 2 ELSE 1, 1, "h264", "720p")]
    /\ nextId = MaxJobs
    /\ queue = [j \in JobIds |-> Task(j, 1, "h264", "720p")]
    /\ running = {}
    /\ inflight = {}
    /\ resp = [op |-> "transcode_video", code |-> 202, job_ids |-> <<MaxJobs>>]

NextQuery ==
    \/ \E u \in Users, id \in JobIds \cup {UnknownJob} : get_transcoding_job(u, id)
    \/ \E u \in Users, st \in StatusFilters, ok \in BOOLEAN : get_transcoding_jobs(u, st, ok)
    \/ \E u \in Users, v \in VideoIds : delete_video(u, v)
    \/ Workers({TRUE})

SpecQuery == InitQuery /\ [][NextQuery]_vars

\* Downloads: the jobs of the query scenario; every user asks for the output of
\* every job while the workers run the jobs, with store operations that may raise,
\* and the video may be deleted.
NextDownload ==
    \/ \E u \in Users, id \in JobIds \cup {UnknownJob}, exists \in BOOLEAN :
           download_transcoded_video(u, id, exists)
    \/ \E u \in Users, v \in VideoIds : delete_video(u, v)
    \/ Workers(BOOLEAN)

SpecDownload == InitQuery /\ [][NextDownload]_vars

----------------------------------------------------------------------------
(* Properties *)

Rows == {j \in DOMAIN jobs : Exists(j)}

WithStatus(st) == {j \in Rows : jobs[j].status = st}

Held(j) == \E t \in running : t.job_id = j

\* C1: every change of a job's stored status is queued -> processing,
\* processing -> completed or processing -> failed.
C1_StatusTransitions ==
    [][\A j \in DOMAIN jobs :
          (Exists(j) /\ jobs'[j] # NoJob /\ jobs'[j].status # jobs[j].status)
          => <<jobs[j].status, jobs'[j].status>> \in
                 {<<"queued", "processing">>, <<"processing", "completed">>,
                  <<"processing", "failed">>}]_vars

\* C2: at most max_workers (4) job records have status processing.
C2_AtMostFourProcessing == Cardinality(WithStatus("processing")) <= max_workers

\* C3: no job whose worker task has ended remains in processing: a record with
\* status processing is held by a worker thread.
C3_NoStaleProcessing == \A j \in WithStatus("processing") : Held(j)

\* C4: transcode_video with a format or a resolution outside the enumerations returns
\* 400, creates no job record, enqueues no task and leaves no handler running.
C4_InvalidTargetRejected ==
    [][\A u \in Users, v \in VideoIds, t \in RequestTargets :
          (/\ t[1] \notin valid_formats \/ t[2] \notin valid_resolutions
           /\ transcode_video(u, v, t[1], t[2]))
          => /\ resp'.op = "transcode_video" /\ resp'.code = 400
             /\ UNCHANGED <<jobs, queue, inflight, nextId, running>>]_vars

C4_Witness == resp.op = "transcode_video" /\ resp.code = 400

\* C5: every job record has a target format and a target resolution of the
\* enumerations.
C5_TargetsValid ==
    \A j \in Rows : /\ jobs[j].target_format \in valid_formats
                    /\ jobs[j].target_resolution \in valid_resolutions

\* C6: transcode_video by a non-admin against a video that does not exist or that
\* another user owns returns 404 and creates nothing; by an admin against an existing
\* video (with a valid target) it is accepted and generates a job id.
VideoExists(v) == v \in 1..Len(videos) /\ videos[v] # NoUser

C6_OwnershipCheck ==
    [][\A u \in Users, v \in VideoIds, t \in RequestTargets :
          (/\ t[1] \in valid_formats /\ t[2] \in valid_resolutions
           /\ transcode_video(u, v, t[1], t[2]))
          => /\ (Role(u) # "admin" /\ (~VideoExists(v) \/ videos[v] # u))
                => /\ resp'.op = "transcode_video" /\ resp'.code = 404
                   /\ UNCHANGED <<jobs, queue, inflight, nextId, running>>
             /\ (Role(u) = "admin" /\ VideoExists(v))
                => /\ nextId' = nextId + 1
                   /\ \E r \in inflight' \ inflight :
                          r.user = u /\ r.vids = <<v>> /\ r.job_ids = <<nextId'>>]_vars

\* A not-found answer was returned while a record exists that the admin created for
\* a video of user 2.
C6_Witness ==
    /\ resp.op = "transcode_video" /\ resp.code = 404
    /\ \E j \in Rows : Role(jobs[j].user_id) = "admin" /\ jobs[j].video_id \in VideoIds

C9_CompletedFields ==
    \A j \in WithStatus("completed") :
        /\ jobs[j].progress = 100
        /\ jobs[j].result_filename # NoFile
        /\ jobs[j].completed_at # NULL
        /\ jobs[j].processing_time # NULL

C9_Witness == WithStatus("completed") # {}

\* C10: every record that reached failed through an engine failure (error_message is
\* the engine's diagnostic output) has completed_at set.
C10_FailedStamped ==
    \A j \in WithStatus("failed") :
        jobs[j].error_message = Stderr => jobs[j].completed_at # NULL

Terminal == {"completed", "failed"}

\* C11: created_at, started_at and completed_at are written in that order:
\* completed_at is never set on a record whose started_at is unset, and every record
\* in completed or failed has all three timestamps set.
C11_TimestampsOrdered ==
    \A j \in Rows :
        /\ jobs[j].created_at # NULL
        /\ jobs[j].completed_at # NULL => jobs[j].started_at # NULL
        /\ jobs[j].status \in Terminal =>
               jobs[j].started_at # NULL /\ jobs[j].completed_at # NULL

\* C12: a record has a processing_time exactly when its status is completed or
\* failed: none in queued or processing, every one in completed or failed.
C12_DurationIffTerminal ==
    \A j \in Rows : jobs[j].processing_time # NULL <=> jobs[j].status \in Terminal

\* C13: progress is 0 or 100 and never decreases; it is 100 exactly in the records
\* with status completed, so a failed record has progress 0.
C13_Progress ==
    [][\A j \in DOMAIN jobs :
           Exists(j)' =>
               /\ jobs'[j].progress \in {0, 100}
               /\ jobs'[j].progress = 100 <=> jobs'[j].status = "completed"
               /\ Exists(j) => jobs'[j].progress >= jobs[j].progress]_vars

\* C14: once a record is completed or failed, no step changes its status, its
\* progress or its error_message.
C14_TerminalAbsorbing ==
    [][\A j \in DOMAIN jobs :
           Exists(j) /\ jobs[j].status \in Terminal /\ Exists(j)' =>
               /\ jobs'[j].status = jobs[j].status
               /\ jobs'[j].progress = jobs[j].progress
               /\ jobs'[j].error_message = jobs[j].error_message]_vars

Started(j) == Exists(j) /\ jobs[j].started_at # NULL

\* C15 (as stated): for two jobs A and B with A submitted before B (job ids are
\* issued in the order the requests are handled), B has not entered processing
\* (started_at set) unless A has.
C15_Original ==
    \A a \in Rows, b \in Rows : a < b /\ Started(b) => Started(a)

\* C15 (amended): the executor's work queue is first in, first out: a step changes
\* it only by appending one task at its tail or by removing its head, and a task
\* enters a worker only as the head of the queue.  The order in which the records
\* of taken tasks enter processing is not fixed.
C15_FifoTake ==
    [][/\ \/ queue' = queue
          \/ queue # <<>> /\ queue' = Tail(queue)
          \/ /\ Len(queue') = Len(queue) + 1
             /\ SubSeq(queue', 1, Len(queue)) = queue
       /\ \A t \in running' :
              (\A s \in running : s.job_id # t.job_id) =>
                  /\ queue # <<>>
                  /\ t.job_id = Head(queue).job_id
                  /\ queue' = Tail(queue)]_vars

\* Workers hold tasks while others wait, and every task a worker holds was queued
\* ahead of the task now at the head of the queue.
C15_Witness ==
    /\ queue # <<>>
    /\ running # {}
    /\ \A t \in running : t.job_id < Head(queue).job_id

Enqueued(j) == \E i \in 1..Len(queue) : queue[i].job_id = j

TaskCount(j) ==
    Cardinality({i \in 1..Len(queue) : queue[i].job_id = j})
        + Cardinality({t \in running : t.job_id = j})

\* Job id j has been handed to the executor: it has been issued and no handler
\* still holds it ahead of its executor.submit.
Submitted(j) ==
    /\ j \in 1..nextId
    /\ \A r \in inflight : r.op = "transcode" => r.job_ids # <<j>>

\* C16: the encode task of a job runs at most once: a job id has at most one task
\* in the executor, a task is queued only for an id not handed over before, a
\* worker gets a task only from the queue and passes the engine call once (start,
\* engine, except, in this order), and a failed record never changes status.
C16_AtMostOnce ==
    [][/\ \A j \in DOMAIN jobs :
              /\ TaskCount(j)' <= 1
              /\ Submitted(j) => Submitted(j)' /\ (Enqueued(j)' => Enqueued(j))
              /\ Exists(j) /\ jobs[j].status = "failed" /\ Exists(j)' =>
                     jobs'[j].status = "failed"
       /\ \A t \in running' :
              \/ t \in running
              \/ t.pc = "start" /\ Enqueued(t.job_id)
                     /\ \A s \in running : s.job_id # t.job_id
              \/ t.pc = "engine" /\ [t EXCEPT !.pc = "start", !.cmd = <<>>] \in running
              \/ t.pc = "except"
                     /\ \E s \in running : s.job_id = t.job_id /\ s.pc \in {"start", "engine"}
      ]_vars

\* A job whose engine has run and failed: its record is failed and the executor
\* holds no task for it.
C16_Witness ==
    \E j \in WithStatus("failed") : jobs[j].error_message = Stderr /\ TaskCount(j) = 0

\* C17: a valid transcode_video request never waits for a job: whatever the pool
\* holds, the handler's next step is enabled; its INSERT creates the record with
\* status queued and touches neither the queue nor the workers; its last step
\* appends exactly one task, the job's, to the work queue and returns 202 with the
\* new job id.
C17_SubmitNeverWaits ==
    /\ [](\A r \in inflight :
              r.op = "transcode" => ENABLED (transcode_insert(r) \/ transcode_submit(r)))
    /\ [][\A r \in inflight :
              /\ transcode_insert(r) =>
                     /\ Exists(r.job_ids[1])'
                     /\ jobs'[r.job_ids[1]].status = "queued"
                     /\ UNCHANGED <<queue, running>>
              /\ transcode_submit(r) =>
                     /\ resp'.code = 202 /\ resp'.job_ids = r.job_ids
                     /\ queue' = Append(queue, Task(r.job_ids[1], r.vids[1], r.format, r.resolution))
                     /\ TaskCount(r.job_ids[1])' = 1
                     /\ UNCHANGED <<jobs, running>>]_vars

\* A request returned 202 with a new job while the 4 workers were busy and a task was
\* already waiting: the new job is queued and its task is the last of the queue.
C17_Witness ==
    /\ Cardinality(running) = max_workers
    /\ Len(queue) >= 2
    /\ resp = [op |-> "transcode_video", code |-> 202, job_ids |-> <<nextId>>]
    /\ nextId > PoolJobs
    /\ queue[Len(queue)].job_id = nextId
    /\ Exists(nextId) /\ jobs[nextId].status = "queued"

\* C18: in every step, every record left with status processing belongs to a job a
\* worker holds, and a worker that lets go of its task does not leave the job's
\* record in processing.
C18_SlotHeldWhileProcessing ==
    [][/\ \A j \in DOMAIN jobs :
              Exists(j)' /\ jobs'[j].status = "processing" =>
                  \E t \in running' : t.job_id = j
       /\ \A t \in running :
              (\A s \in running' : s.job_id # t.job_id) =>
                  ~(Exists(t.job_id)' /\ jobs'[t.job_id].status = "processing")]_vars

\* The tables that differ from jobs in one row that user u does not own: the row is
\* absent, is another user's queued job, or is the same job in another status.
OthersChanged(u) ==
    UNION {{[jobs EXCEPT ![k] = x] :
                x \in {NoJob} \cup {NewJob(k, o, 1, "h264", "720p") : o \in Users \ {u}}
                         \cup (IF Exists(k)
                               THEN {ProcessingRow(jobs[k]), CompletedRow(jobs[k]),
                                     FailedRow(jobs[k], Stderr)}
                               ELSE {})} :
           k \in {i \in DOMAIN jobs : ~Exists(i) \/ jobs[i].user_id # u}}

\* C19: get_transcoding_job answers 200 with the job's current fields when the job
\* exists and the requester is an admin or the job's owner, and 404 'Job not found'
\* otherwise (unknown id included); the answer to a non-admin is the same in every
\* table that differs only in the jobs the requester does not own.
C19_QueryOwnerOnly ==
    [][\A u \in Users, id \in DOMAIN jobs \cup {UnknownJob} :
           get_transcoding_job(u, id) =>
               /\ IF id \in DOMAIN jobs /\ Exists(id)
                     /\ (Role(u) = "admin" \/ jobs[id].user_id = u)
                  THEN /\ resp'.code = 200
                       /\ resp'.body.id = id
                       /\ resp'.body.status = jobs[id].status
                       /\ resp'.body.progress = jobs[id].progress
                       /\ resp'.body.error_message = jobs[id].error_message
                  ELSE /\ resp'.code = 404
                       /\ resp'.body = "Job not found"
               /\ Role(u) # "admin" =>
                      \A J \in OthersChanged(u) :
                          /\ JobResponse(J, u, id).code = resp'.code
                          /\ JobResponse(J, u, id).body = resp'.body]_vars

\* A user who is neither admin nor owner asked for an existing job and got 404.
C19_Witness ==
    /\ resp.op = "get_transcoding_job"
    /\ resp.code = 404
    /\ Role(resp.user) # "admin"
    /\ resp.job_ids[1] \in Rows
    /\ jobs[resp.job_ids[1]].user_id # resp.user

\* C20: a step that answers a get_transcoding_job or a get_transcoding_jobs request
\* changes no job record, neither the work queue nor the running tasks (nor any
\* part of the state but the response), and the same get_transcoding_job request
\* made again right after gets the same answer.
C20_QueriesReadOnly ==
    [][resp' # resp /\ resp'.op \in {"get_transcoding_job", "get_transcoding_jobs"} =>
           /\ UNCHANGED <<videos, jobs, nextId, queue, running, inflight>>
           /\ resp'.op = "get_transcoding_job" =>
                  JobResponse(jobs', resp'.user, resp'.job_ids[1])
                      = [code |-> resp'.code, body |-> resp'.body]]_vars

\* A job was served to its owner while a worker runs it and a task waits.
C20_Witness ==
    /\ resp.op = "get_transcoding_job"
    /\ resp.code = 200
    /\ resp.body.status = "processing"
    /\ Held(resp.job_ids[1])
    /\ queue # <<>>

\* The items of a batch that user u may transcode, in list order.
Accessible(u, ids) == SelectSeq(ids, LAMBDA v : VideoVisible(u, v))

\* The items of batch r whose pass of the loop has reached executor.submit or
\* skipped the item.
Passed(r) ==
    SubSeq(r.req, 1, Len(r.req) - Len(r.vids) + (IF r.pc = "commit" THEN 1 ELSE 0))

\* C21: batch_transcode returns one job id per item that exists and is accessible
\* to the requester, in list order.  For an accessible item one pass of the loop
\* issues one id and queues one task, and its commit creates that one record, in
\* queued, for that video and the requester; for any other item the pass creates
\* neither record nor task and the loop goes on.
C21_BatchPerItem ==
    [][\A r \in inflight :
           /\ batch_item(r) =>
                  IF VideoVisible(r.user, Head(r.vids))
                  THEN /\ nextId' = nextId + 1
                       /\ queue' = Append(queue, Task(nextId + 1, Head(r.vids), r.format, r.resolution))
                       /\ \A t \in running' : t.job_id # nextId + 1
                       /\ \A i \in 1..Len(queue) : queue[i].job_id # nextId + 1
                       /\ UNCHANGED jobs
                  ELSE /\ UNCHANGED <<jobs, queue, nextId, running>>
                       /\ \E s \in inflight' : s.op = "batch" /\ s.vids = Tail(r.vids)
           /\ batch_commit(r) =>
                  LET id == r.job_ids[Len(r.job_ids)]
                  IN /\ ~Exists(id) /\ Exists(id)'
                     /\ jobs'[id].status = "queued"
                     /\ jobs'[id].video_id = Head(r.vids)
                     /\ jobs'[id].user_id = r.user
                     /\ \A j \in DOMAIN jobs \ {id} : jobs'[j] = jobs[j]
                     /\ UNCHANGED queue
           /\ r.op = "batch" =>
                  /\ Len(r.job_ids) = Len(Accessible(r.user, Passed(r)))
                  /\ \A i \in 1..Len(r.job_ids) :
                         /\ \A k \in 1..(i - 1) : r.job_ids[k] < r.job_ids[i]
                         /\ Exists(r.job_ids[i]) =>
                                jobs[r.job_ids[i]].video_id
                                    = Accessible(r.user, Passed(r))[i]
           /\ batch_return(r) =>
                  /\ resp'.code = 202
                  /\ resp'.job_ids = r.job_ids
                  /\ Len(resp'.job_ids) = Len(Accessible(r.user, r.req))
                  /\ \A i \in 1..Len(r.job_ids) :
                         /\ Exists(r.job_ids[i])
                         /\ jobs[r.job_ids[i]].video_id = Accessible(r.user, r.req)[i]
                         /\ jobs[r.job_ids[i]].user_id = r.user]_vars

\* A batch of 3 items of which one fails the check is about to return 2 job ids,
\* and the 2 records exist.
C21_Witness ==
    \E r \in inflight :
        /\ r.op = "batch" /\ r.vids = <<>>
        /\ Len(r.req) = 3 /\ Len(r.job_ids) = 2
        /\ \A i \in 1..2 : Exists(r.job_ids[i])

\* C22: the owner, the video, the target (format, resolution, bitrate) and the
\* result_filename that carries the id of a job record never change while the
\* record exists, whatever step is taken (the worker's updates to processing,
\* completed and failed, the except block included).
C22_IdentityFrame ==
    [][\A j \in DOMAIN jobs :
           Exists(j) /\ Exists(j)' =>
               /\ jobs'[j].user_id = jobs[j].user_id
               /\ jobs'[j].video_id = jobs[j].video_id
               /\ jobs'[j].target_format = jobs[j].target_format
               /\ jobs'[j].target_resolution = jobs[j].target_resolution
               /\ jobs'[j].target_bitrate = jobs[j].target_bitrate
               /\ jobs'[j].result_filename[1] = j]_vars

\* The three kinds of worker update have been applied: one record went through
\* processing to completed, another was marked failed by the except block.
C22_Witness ==
    /\ \E j \in WithStatus("completed") : jobs[j].started_at # NULL
    /\ \E j \in WithStatus("failed") : jobs[j].error_message = StoreError

\* C23: once the row of a video is deleted, no job record refers to that video.
C23_NoJobOfDeletedVideo ==
    \A j \in Rows :
        jobs[j].video_id \in 1..Len(videos) => videos[jobs[j].video_id] # NoUser

\* C24: the result_filename of a job record never changes while the record exists,
\* and no two job records have the same result_filename.
C24_ResultStableUnique ==
    [][/\ \A j \in DOMAIN jobs :
              Exists(j) /\ Exists(j)' =>
                  jobs'[j].result_filename = jobs[j].result_filename
       /\ \A a \in DOMAIN jobs, b \in DOMAIN jobs :
              Exists(a)' /\ Exists(b)' /\ a # b =>
                  jobs'[a].result_filename # jobs'[b].result_filename]_vars

\* Two jobs with the same target exist, one of them finished.
C24_Witness ==
    \E a \in Rows, b \in Rows :
        /\ a # b
        /\ jobs[a].target_format = jobs[b].target_format
        /\ jobs[a].target_resolution = jobs[b].target_resolution
        /\ jobs[a].status = "completed"
        /\ jobs[b].status = "queued"

\* C25: whenever the task of a job waits in the work queue while the 4 workers are
\* busy, every worker holds the task of a job: no other kind of task holds a slot
\* and delays a job.
C25_SlotsHeldByJobsOnly ==
    (Cardinality(running) = max_workers /\ \E i \in 1..Len(queue) : ~IsStress(queue[i]))
        => \A t \in running : ~IsStress(t)

\* C26: when the task of a job is put on the work queue, the job's record is
\* already committed in the store, with status queued.
C26_CommittedBeforeEnqueue ==
    [][\A j \in DOMAIN jobs :
           Enqueued(j)' /\ ~Enqueued(j) => Exists(j) /\ jobs[j].status = "queued"]_vars

\* C27: whenever a worker is at the engine call for job j, the store holds a record
\* for j with status processing and started_at stamped.
C27_EngineOnlyWhileProcessing ==
    \A t \in running :
        t.pc = "engine" =>
            /\ Exists(t.job_id)
            /\ jobs[t.job_id].status = "processing"
            /\ jobs[t.job_id].started_at # NULL

\* C28: a step changes a job record only by creating it (in queued, no worker
\* involved), by deleting it together with its video, or as the update of the
\* worker that holds the task of that very job, which changes no other record.
C28_WritesOwnRecordOnly ==
    [][\A j \in DOMAIN jobs :
           jobs'[j] # jobs[j] =>
               \/ /\ ~Exists(j) /\ Exists(j)'
                  /\ jobs'[j].status = "queued"
                  /\ UNCHANGED running
               \/ /\ Exists(j) /\ ~Exists(j)'
                  /\ jobs[j].video_id \in 1..Len(videos)
                  /\ videos[jobs[j].video_id] # NoUser
                  /\ videos'[jobs[j].video_id] = NoUser
                  /\ UNCHANGED running
               \/ /\ Exists(j) /\ Exists(j)'
                  /\ \E t \in running : t.job_id = j /\ t \notin running'
                  /\ \A k \in DOMAIN jobs \ {j} : jobs'[k] = jobs[k]]_vars

\* A worker has updated the record of its job to processing while the record of
\* another job is still as created.
C28_Witness ==
    \E a \in Rows, b \in Rows :
        /\ a # b
        /\ jobs[a].status = "processing" /\ Held(a)
        /\ jobs[b].status = "queued" /\ jobs[b].started_at = NULL

\* C29 as stated: with engine calls and stress tasks that return, store operations
\* that succeed and fair scheduling, every job record in queued eventually is
\* completed or failed.
C29_Original ==
    \A j \in JobIds :
        (Exists(j) /\ jobs[j].status = "queued")
            ~> (Exists(j) /\ jobs[j].status \in Terminal)

\* C29: under the same assumptions every job record in queued eventually is
\* completed or failed, or has been deleted with its video.
C29_QueuedJobsFinish ==
    \A j \in JobIds :
        (Exists(j) /\ jobs[j].status = "queued")
            ~> (~Exists(j) \/ jobs[j].status \in Terminal)

\* A job has finished although a stress test was started while it was not yet
\* finished: stress tasks are still in the pool.
C29_Witness ==
    /\ \E j \in Rows : jobs[j].status \in Terminal
    /\ LiveStress # {}

\* The scale filter and the codec the engine is to be given for a target.
ExpectedScale(res) ==
    CASE res = "480p" -> "scale=854:480:flags=lanczos"
      [] res = "720p" -> "scale=1280:720:flags=lanczos"
      [] res = "1080p" -> "scale=1920:1080:flags=lanczos"
      [] res = "4K" -> "scale=3840:2160:flags=lanczos"

ExpectedCodec(fmt) ==
    CASE fmt = "h264" -> "libx264"
      [] fmt = "h265" -> "libx265"
      [] fmt = "vp9" -> "libvpx-vp9"

\* A command without its input and output paths.
Masked(cmd) == [cmd EXCEPT ![3] = "input_path", ![Len(cmd)] = "output_path"]

Encoding == {t \in running : t.pc = "engine"}

\* C30: the command of every engine invocation has as filter chain the scale filter
\* of the job's resolution followed by the sharpen, colour and denoise filters, and
\* as video codec the one of the job's format; the commands of two jobs with equal
\* format, resolution and bitrate differ in the input and output paths only.
C30_InvocationFixedByTarget ==
    \A t \in Encoding :
        /\ t.cmd[5] = "-vf"
        /\ t.cmd[6] = <<ExpectedScale(t.resolution), "unsharp=5:5:1.0:5:5:0.0",
                        "eq=contrast=1.1:brightness=0.02:saturation=1.1",
                        "hqdn3d=4:3:6:4.5">>
        /\ t.cmd[7] = "-c:v"
        /\ t.cmd[8] = ExpectedCodec(t.format)
        /\ \A s \in Encoding :
               (s.format = t.format /\ s.resolution = t.resolution
                    /\ s.target_bitrate = t.target_bitrate)
               => Masked(s.cmd) = Masked(t.cmd)

\* The engine runs for two jobs with the target vp9, 4K at the same time.
C30_Witness ==
    \E s, t \in Encoding :
        /\ s.job_id # t.job_id
        /\ s.format = "vp9" /\ t.format = "vp9"
        /\ s.resolution = "4K" /\ t.resolution = "4K"
        /\ s.target_bitrate = t.target_bitrate
        /\ s.cmd # t.cmd

\* C31: every job record refers to a video whose row exists, and no step creates a
\* job record, or answers a submission with 202, for a video whose row is deleted.
C31_JobsReferenceVideos ==
    /\ [](\A j \in Rows : VideoExists(jobs[j].video_id))
    /\ [][/\ \A j \in DOMAIN jobs :
                 (~Exists(j) /\ Exists(j)') => VideoExists(jobs[j].video_id)'
          /\ \A r \in inflight :
                 transcode_submit(r) => VideoExists(r.vids[1])]_vars

\* The job records a List request of user u with status filter st is about: those of
\* u, or of every owner for an admin, with the status st when a filter is given.
Listable(u, st) ==
    {j \in Rows : /\ (Role(u) = "admin" \/ jobs[j].user_id = u)
                  /\ (st = NULL \/ jobs[j].status = st)}

\* C32: get_transcoding_jobs answers a user with exactly the user's own job records,
\* an admin with those of all owners, restricted to the status filter when one is
\* given, and the total it reports is the number of these records.
C32_ListOwnJobs ==
    [][resp' # resp /\ resp'.op = "get_transcoding_jobs" =>
           /\ {d.id : d \in resp'.body.jobs} = Listable(resp'.user, resp'.status)
           /\ \A d \in resp'.body.jobs : d.status = jobs[d.id].status
           /\ resp'.body.total = Cardinality(Listable(resp'.user, resp'.status))]_vars

\* C33: download_transcoded_video answers 200 or 404.  It answers 200, with the
\* output path of the job, only for a job record that is completed and is the
\* requester's or requested by an admin, and then no worker is running the engine
\* for that job; for a job that is queued, processing or failed, for a job of
\* another owner and for an unknown job it answers 404.  It changes nothing.
C33_DownloadOnlyCompleted ==
    [][resp' # resp /\ resp'.op = "download_transcoded_video" =>
           LET u == resp'.user
               id == resp'.job_ids[1]
           IN /\ resp'.code \in {200, 404}
              /\ resp'.code = 200 =>
                     /\ id \in Rows
                     /\ jobs[id].status = "completed"
                     /\ Role(u) = "admin" \/ jobs[id].user_id = u
                     /\ resp'.body = <<"transcoded", <<id, jobs[id].target_format,
                                                      jobs[id].target_resolution, "mp4">>>>
                     /\ \A t \in running : t.job_id = id => t.pc # "engine"
              /\ (\/ id \notin Rows
                  \/ jobs[id].status \in {"queued", "processing", "failed"}
                  \/ Role(u) # "admin" /\ jobs[id].user_id # u) => resp'.code = 404
              /\ UNCHANGED <<videos, jobs, nextId, queue, running, inflight>>]_vars

\* The output of a completed job was served to its owner, who is no admin, while the
\* engine runs for another job.
C33_Witness ==
    /\ resp.op = "download_transcoded_video"
    /\ resp.code = 200
    /\ Role(resp.user) # "admin"
    /\ \E t \in running : t.pc = "engine"

\* C34: the job view of a get_transcoding_job answer, and every job view of a
\* get_transcoding_jobs answer, has a download_url, the download address of that
\* job, exactly when the job record is completed when it is read.
C34_DownloadUrlIffCompleted ==
    [][resp' # resp =>
           /\ (resp'.op = "get_transcoding_job" /\ resp'.code = 200) =>
                  /\ resp'.body.download_url # <<>>
                         <=> jobs[resp'.job_ids[1]].status = "completed"
                  /\ resp'.body.download_url \in
                         {<<>>, <<"/api/v1/transcoding/jobs", resp'.job_ids[1], "download">>}
           /\ resp'.op = "get_transcoding_jobs" =>
                  \A d \in resp'.body.jobs :
                      /\ d.download_url # <<>> <=> jobs[d.id].status = "completed"
                      /\ d.download_url \in
                             {<<>>, <<"/api/v1/transcoding/jobs", d.id, "download">>}]_vars

\* A list with a completed job, which has a download_url, and a job that is not
\* completed, which has none.
C34_Witness ==
    /\ resp.op = "get_transcoding_jobs"
    /\ \E d, e \in resp.body.jobs :
           /\ d.status = "completed" /\ d.download_url # <<>>
           /\ e.status # "completed" /\ e.download_url = <<>>

====
